---- MODULE Spec2Model ----
(***************************************************************************)
(* Skills_Exchange: the Exchange lifecycle of main/views.py and            *)
(* main/admin.py over the Exchange rows of main/models.py.                 *)
(*                                                                         *)
(* A request handler reads one Exchange row (get_object_or_404), changes   *)
(* the in-memory instance and writes the WHOLE row back (Model.save()      *)
(* writes every column and re-stamps last_updated, an auto_now column).    *)
(* QuerySet.update() is one UPDATE statement: it writes only the named     *)
(* columns of the rows that match, and does not touch last_updated.        *)
(*                                                                         *)
(* SpecSerial runs every handler to completion before the next begins.     *)
(* Spec runs the read and the save of a handler as separate steps of a     *)
(* server worker, so that requests interleave.                             *)
(* SpecStatus evaluates Exchange.completion_status() on arbitrary rows.    *)
(* SpecUsers adds admin_delete_user and admin_toggle_staff to the serial   *)
(* handlers. SpecMatch computes the dashboard matches over drawn UserSkill *)
(* stores. SpecMsg runs messages_view one request at a time, SpecMsgRace   *)
(* with one request held between its UPDATE and its rendering. SpecSkills  *)
(* runs the manage_skills formset.                                         *)
(* SpecAdmin runs the two user management handlers alone, from any User   *)
(* table that holds a staff user.                                          *)
(***************************************************************************)
EXTENDS Integers, Sequences, FiniteSets, TLC

\* ---------------------------------------------------------------- bounds
MaxEx == 2          \* Exchange rows that may be created
MaxTime == 2        \* readings of timezone.now()
MaxWorkers == 2     \* requests in flight at once (Spec)

\* ------------------------------------------------------------ the store
Users == {"alice", "bob", "carol"}
Skills == {"Guitar", "Chess"}
ExIds == 1..MaxEx
Workers == 1..MaxWorkers
NullDate == 0       \* a DateTimeField holding NULL; the clock starts above it

STATUS_CHOICES == {"pending", "active", "completed", "dispute", "cancelled"}

VARIABLES
    users,          \* auth User rows: user -> [is_staff, is_superuser]
    userSkills,     \* UserSkill rows: set of [id, user, skill, role]
    exchanges,      \* Exchange rows: id -> row, DOMAIN = the ids created
    now,            \* the current reading of timezone.now()
    response,       \* the last answer: [view, level], the view that gave it
                    \* and the levels of the messages it emitted
    inflight,       \* worker -> the request it holds between read and save
    statusOut,      \* the value completion_status() returned (SpecStatus)
    exchange_id_seq,\* the last value of the Exchange AutoField sequence
    matches,        \* the matches list the dashboard last rendered
    messages,       \* Message rows: id -> row, DOMAIN = the ids stored
    message_id_seq, \* the last value of the Message AutoField sequence
    thread,         \* the messages_view request that has run its mark-read
                    \* UPDATE and not yet the rest of the handler
    page,           \* the context the last messages_view response rendered
    userskill_id_seq \* the last value of the UserSkill AutoField sequence

vars == <<users, userSkills, exchanges, now, response, inflight, statusOut,
          exchange_id_seq, matches, messages, message_id_seq, thread, page,
          userskill_id_seq>>

\* The Message table and the pages of messages_view.
mail == <<messages, message_id_seq, thread, page>>

\* What the Exchange handlers neither read nor write.
other == <<matches, mail, userskill_id_seq>>

Dates == 0..MaxTime

Exchange == [user1 : Users, user2 : Users, skill1 : Skills, skill2 : Skills,
             status : STATUS_CHOICES,
             user1_completed : BOOLEAN, user2_completed : BOOLEAN,
             user1_completed_date : Dates, user2_completed_date : Dates,
             admin_approved : BOOLEAN, admin_approved_date : Dates,
             last_updated : Dates]

Idle == [op |-> "idle", user |-> "none", queue |-> <<>>, level |-> <<>>]

Answer(view, l) == [view |-> view, level |-> l]
NoAnswer == Answer("none", <<>>)

\* No messages_view request under way, and no page rendered.
NoThread == [user |-> "none", counterpart |-> "none", method |-> "none",
             content |-> <<>>, conversations |-> <<>>]
NoPage == [conversations |-> <<>>, selected_user |-> "none",
           messages |-> <<>>]

\* The Message table empty and no messages_view request under way.
NoMail ==
    /\ messages = << >>
    /\ message_id_seq = 0
    /\ thread = NoThread
    /\ page = NoPage

\* ------------------------------------------------- Exchange (models.py)
both_users_completed(x) == x.user1_completed /\ x.user2_completed

\* Mutant: the both_users_completed() branch tested before admin_approved.
completion_status_reordered(x) ==
    IF both_users_completed(x) THEN "Awaiting Admin Approval"
    ELSE IF x.admin_approved THEN "Admin Approved"
    ELSE IF x.user1_completed \/ x.user2_completed THEN "Partially Complete"
    ELSE "In Progress"

completion_status(x) ==
    IF x.admin_approved THEN "Admin Approved"
    ELSE IF both_users_completed(x) THEN "Awaiting Admin Approval"
    ELSE IF x.user1_completed \/ x.user2_completed THEN "Partially Complete"
    ELSE "In Progress"

\* Exchange.objects.create(user1, user2, skill1, skill2, status="pending"):
\* every other column takes its field default.
NewExchange(u1, u2, s1, s2, t) ==
    [user1 |-> u1, user2 |-> u2, skill1 |-> s1, skill2 |-> s2,
     status |-> "pending",
     user1_completed |-> FALSE, user2_completed |-> FALSE,
     user1_completed_date |-> NullDate, user2_completed_date |-> NullDate,
     admin_approved |-> FALSE, admin_approved_date |-> NullDate,
     last_updated |-> t]

\* A pending instance.save(): the in-memory row, and the date column the
\* handler assigns timezone.now() to just before it saves ("none": no column).
Write(e, x, col) == [ex |-> e, row |-> x, stamp |-> col]

\* Model.save(): every column of the instance is written; last_updated is
\* auto_now, so pre_save stamps it with the time of the save.
Saved(w, t) ==
    IF w.stamp = "none" THEN [w.row EXCEPT !.last_updated = t]
    ELSE [w.row EXCEPT ![w.stamp] = t, !.last_updated = t]

Exists(e) == e \in DOMAIN exchanges

IsStaff(u) == users[u].is_staff

\* The admin site runs a ModelAdmin action for an active staff user who holds
\* the model's change permission; no Permission rows exist here, so only a
\* superuser holds it.
AdminSitePermitted(u) == users[u].is_staff /\ users[u].is_superuser

\* A handler's outcome: the rows it will save() in order, and the levels of
\* the django.contrib.messages it emits ("404" stands for Http404 and
\* "login" for the redirect of a rejected decorator).
Outcome(q, l) == [queue |-> q, level |-> l]
Http404 == Outcome(<<>>, <<"404">>)
LoginRedirect == Outcome(<<>>, <<"login">>)

\* ------------------------------------------- participants (views.py)
\* Mutant: the lookup without user2=request.user.
AcceptLookupAnyUser(u, e) ==
    Exists(e) /\ exchanges[e].status = "pending"

AcceptLookup(u, e) ==
    Exists(e) /\ exchanges[e].user2 = u /\ exchanges[e].status = "pending"

\* Mutant: accepting leaves the proposal pending.
accept_exchange_stays_pending(u, e) ==
    IF ~AcceptLookup(u, e) THEN Http404
    ELSE Outcome(<<Write(e, exchanges[e], "none")>>, <<"success">>)

accept_exchange(u, e) ==
    IF ~AcceptLookup(u, e) THEN Http404
    ELSE Outcome(<<Write(e, [exchanges[e] EXCEPT !.status = "active"], "none")>>,
                 <<"success">>)

reject_exchange(u, e) ==
    IF ~AcceptLookup(u, e) THEN Http404
    ELSE Outcome(<<Write(e, [exchanges[e] EXCEPT !.status = "cancelled"], "none")>>,
                 <<"info">>)

\* Mutant: the lookup without status="active".
CompleteLookupAnyStatus(u, e) ==
    /\ Exists(e)
    /\ exchanges[e].user1 = u \/ exchanges[e].user2 = u

CompleteLookup(u, e) ==
    /\ Exists(e)
    /\ exchanges[e].user1 = u \/ exchanges[e].user2 = u
    /\ exchanges[e].status = "active"

\* The trailing notice of mark_exchange_complete, read off the instance.
ReviewNotice(x) ==
    IF both_users_completed(x) /\ ~x.admin_approved THEN <<"info">> ELSE <<>>

\* Mutant: the handler also closes the exchange once both flags are set.
mark_exchange_complete_closes(u, e) ==
    IF ~CompleteLookup(u, e) THEN Http404
    ELSE LET x == exchanges[e]
             is_user1 == u = x.user1
             Close(y) == IF both_users_completed(y)
                         THEN [y EXCEPT !.status = "completed"] ELSE y
         IN  IF is_user1 /\ ~x.user1_completed
             THEN LET y == Close([x EXCEPT !.user1_completed = TRUE])
                  IN  Outcome(<<Write(e, y, "user1_completed_date")>>,
                              <<"success">> \o ReviewNotice(y))
             ELSE IF ~is_user1 /\ ~x.user2_completed
             THEN LET y == Close([x EXCEPT !.user2_completed = TRUE])
                  IN  Outcome(<<Write(e, y, "user2_completed_date")>>,
                              <<"success">> \o ReviewNotice(y))
             ELSE Outcome(<<>>, <<"info">> \o ReviewNotice(x))

\* Mutant: the handler without its "not exchange.userN_completed" tests.
mark_exchange_complete_again(u, e) ==
    IF ~CompleteLookup(u, e) THEN Http404
    ELSE LET x == exchanges[e]
         IN  IF u = x.user1
             THEN LET y == [x EXCEPT !.user1_completed = TRUE]
                  IN  Outcome(<<Write(e, y, "user1_completed_date")>>,
                              <<"success">> \o ReviewNotice(y))
             ELSE LET y == [x EXCEPT !.user2_completed = TRUE]
                  IN  Outcome(<<Write(e, y, "user2_completed_date")>>,
                              <<"success">> \o ReviewNotice(y))

mark_exchange_complete(u, e) ==
    IF ~CompleteLookup(u, e) THEN Http404
    ELSE LET x == exchanges[e]
             is_user1 == u = x.user1
         IN  IF is_user1 /\ ~x.user1_completed
             THEN LET y == [x EXCEPT !.user1_completed = TRUE]
                  IN  Outcome(<<Write(e, y, "user1_completed_date")>>,
                              <<"success">> \o ReviewNotice(y))
             ELSE IF ~is_user1 /\ ~x.user2_completed
             THEN LET y == [x EXCEPT !.user2_completed = TRUE]
                  IN  Outcome(<<Write(e, y, "user2_completed_date")>>,
                              <<"success">> \o ReviewNotice(y))
             ELSE Outcome(<<>>, <<"info">> \o ReviewNotice(x))

\* ------------------------------------------------- staff (views.py)
ApprovedRow(e, x) ==
    Write(e, [x EXCEPT !.admin_approved = TRUE, !.status = "completed"],
          "admin_approved_date")

\* Mutant: the handler without its both_users_completed() check.
admin_approve_exchange_unchecked(u, e) ==
    IF ~IsStaff(u) THEN LoginRedirect
    ELSE IF ~Exists(e) THEN Http404
    ELSE LET x == exchanges[e]
         IN  IF x.admin_approved THEN Outcome(<<>>, <<"info">>)
             ELSE Outcome(<<ApprovedRow(e, x)>>, <<"success">>)

admin_approve_exchange(u, e) ==
    IF ~IsStaff(u) THEN LoginRedirect
    ELSE IF ~Exists(e) THEN Http404
    ELSE LET x == exchanges[e]
         IN  IF ~both_users_completed(x) THEN Outcome(<<>>, <<"error">>)
             ELSE IF x.admin_approved THEN Outcome(<<>>, <<"info">>)
             ELSE Outcome(<<ApprovedRow(e, x)>>, <<"success">>)

\* --------------------------------------------- ExchangeAdmin (admin.py)
\* The queryset of an admin action, in Meta.ordering ("-start_date"): the
\* newest row first, which is the row with the greatest id.
RECURSIVE Ordered(_)
Ordered(S) ==
    IF S = {} THEN <<>>
    ELSE LET e == CHOOSE m \in S : \A o \in S : o <= m
         IN  <<e>> \o Ordered(S \ {e})

RECURSIVE ApproveEach(_)
ApproveEach(q) ==
    IF q = <<>> THEN <<>>
    ELSE LET x == exchanges[Head(q)]
         IN  IF both_users_completed(x) /\ ~x.admin_approved
             THEN <<ApprovedRow(Head(q), x)>> \o ApproveEach(Tail(q))
             ELSE ApproveEach(Tail(q))

approve_exchanges(u, S) ==
    IF ~AdminSitePermitted(u) THEN LoginRedirect
    ELSE Outcome(ApproveEach(Ordered(S)), <<"info">>)

\* Mutant: the UPDATE without its filter(...).
mark_pending_approval_unfiltered(S) ==
    [e \in DOMAIN exchanges |->
        IF e \in S THEN [exchanges[e] EXCEPT !.status = "active"]
        ELSE exchanges[e]]

\* queryset.filter(...).update(status="active"): one UPDATE statement.
mark_pending_approval(S) ==
    [e \in DOMAIN exchanges |->
        IF /\ e \in S
           /\ exchanges[e].user1_completed
           /\ exchanges[e].user2_completed
           /\ ~exchanges[e].admin_approved
        THEN [exchanges[e] EXCEPT !.status = "active"]
        ELSE exchanges[e]]

\* Mutant: the UPDATE also puts the rows back to status active.
reset_completion_reopens(S) ==
    [e \in DOMAIN exchanges |->
        IF e \in S
        THEN [exchanges[e] EXCEPT !.user1_completed = FALSE,
                                  !.user2_completed = FALSE,
                                  !.user1_completed_date = NullDate,
                                  !.user2_completed_date = NullDate,
                                  !.admin_approved = FALSE,
                                  !.admin_approved_date = NullDate,
                                  !.status = "active"]
        ELSE exchanges[e]]

\* Mutant: the UPDATE without admin_approved and admin_approved_date.
reset_completion_keeps_approval(S) ==
    [e \in DOMAIN exchanges |->
        IF e \in S
        THEN [exchanges[e] EXCEPT !.user1_completed = FALSE,
                                  !.user2_completed = FALSE,
                                  !.user1_completed_date = NullDate,
                                  !.user2_completed_date = NullDate]
        ELSE exchanges[e]]

\* queryset.update(...): one UPDATE statement over the selection.
reset_completion(S) ==
    [e \in DOMAIN exchanges |->
        IF e \in S
        THEN [exchanges[e] EXCEPT !.user1_completed = FALSE,
                                  !.user2_completed = FALSE,
                                  !.user1_completed_date = NullDate,
                                  !.user2_completed_date = NullDate,
                                  !.admin_approved = FALSE,
                                  !.admin_approved_date = NullDate]
        ELSE exchanges[e]]

\* ------------------------------------------------- Create (views.py)
\* What a Create handler does: the row it inserts (none on a refusal) and
\* the levels of its messages.
Created(rows, l) == [insert |-> rows, level |-> l]

\* QuerySet.first() of an unordered queryset orders by primary key.
First(S) == CHOOSE s \in S : \A o \in S : s.id <= o.id

start_exchange(u, tu, sid) ==
    LET target == {s \in userSkills : s.id = sid /\ s.user = tu}
        offers == {s \in userSkills : s.user = u /\ s.role = "offer"}
    IN  IF target = {} THEN Created(<<>>, <<"404">>)
        ELSE IF offers = {} THEN Created(<<>>, <<"error">>)
        ELSE LET other_user_skill == First(target)
                 teach_skill == First(offers)
             IN  Created(<<NewExchange(u, other_user_skill.user,
                                       teach_skill.skill,
                                       other_user_skill.skill, now)>>,
                         <<"success">>)

\* The POST of propose_exchange_view; my = 0 is a form without my_skill.
propose_exchange_view(u, usid, my) ==
    LET target == {s \in userSkills : s.id = usid /\ s.role = "offer"}
        mine == {s \in userSkills :
                    s.id = my /\ s.user = u /\ s.role = "offer"}
    IN  IF target = {} THEN Created(<<>>, <<"404">>)
        ELSE IF First(target).user = u THEN Created(<<>>, <<"error">>)
        ELSE IF my = 0 THEN Created(<<>>, <<"error">>)
        ELSE IF mine = {} THEN Created(<<>>, <<"404">>)
        ELSE Created(<<NewExchange(u, First(target).user, First(mine).skill,
                                   First(target).skill, now)>>,
                     <<"success">>)

\* The AutoField primary key of the next INSERT: the sequence never hands
\* out a value twice, whatever rows have been deleted since.
NextId == exchange_id_seq + 1

Insert(view, c) ==
    /\ c.insert # <<>> => NextId \in ExIds
    /\ exchanges' = IF c.insert = <<>> THEN exchanges
                    ELSE exchanges @@ (NextId :> c.insert[1])
    /\ exchange_id_seq' = IF c.insert = <<>> THEN exchange_id_seq ELSE NextId
    /\ response' = Answer(view, c.level)
    /\ UNCHANGED <<users, userSkills, now, inflight, statusOut, other>>

StartExchange(u, tu, sid) ==
    Insert("start_exchange", start_exchange(u, tu, sid))

ProposeExchange(u, usid, my) ==
    Insert("propose_exchange", propose_exchange_view(u, usid, my))

\* timezone.now() moves on.
Tick ==
    /\ now < MaxTime
    /\ now' = now + 1
    /\ UNCHANGED <<users, userSkills, exchanges, response, inflight, statusOut,
                 exchange_id_seq, other>>

\* -------------------------------------- one UPDATE statement (admin.py)
MarkPendingApproval(u, S) ==
    /\ exchanges' = IF AdminSitePermitted(u) THEN mark_pending_approval(S)
                    ELSE exchanges
    /\ response' = Answer("mark_pending_approval",
                           IF AdminSitePermitted(u) THEN <<"info">>
                           ELSE <<"login">>)
    /\ UNCHANGED <<users, userSkills, now, inflight, statusOut,
                 exchange_id_seq, other>>

ResetCompletion(u, S) ==
    /\ exchanges' = IF AdminSitePermitted(u) THEN reset_completion(S)
                    ELSE exchanges
    /\ response' = Answer("reset_completion",
                           IF AdminSitePermitted(u) THEN <<"info">>
                           ELSE <<"login">>)
    /\ UNCHANGED <<users, userSkills, now, inflight, statusOut,
                 exchange_id_seq, other>>

\* ------------------------------------------- requests run to completion
RECURSIVE Commit(_, _, _)
Commit(store, q, t) ==
    IF q = <<>> THEN store
    ELSE Commit([store EXCEPT ![Head(q).ex] = Saved(Head(q), t)], Tail(q), t)

Serve(view, o) ==
    /\ exchanges' = Commit(exchanges, o.queue, now)
    /\ response' = Answer(view, o.level)
    /\ UNCHANGED <<users, userSkills, now, inflight, statusOut,
                 exchange_id_seq, other>>

AcceptExchange(u, e) == Serve("accept_exchange", accept_exchange(u, e))
RejectExchange(u, e) == Serve("reject_exchange", reject_exchange(u, e))
MarkExchangeComplete(u, e) ==
    Serve("mark_exchange_complete", mark_exchange_complete(u, e))
AdminApproveExchange(u, e) ==
    Serve("admin_approve_exchange", admin_approve_exchange(u, e))
ApproveExchanges(u, S) == Serve("approve_exchanges", approve_exchanges(u, S))

\* ----------------------------------------- requests that interleave
\* A worker takes a request: it runs the handler up to its first save().
\* A handler that saves nothing answers at once.
Begin(w, name, u, o) ==
    /\ inflight[w] = Idle
    /\ IF o.queue = <<>>
       THEN /\ response' = Answer(name, o.level)
            /\ UNCHANGED inflight
       ELSE /\ inflight' = [inflight EXCEPT ![w] =
                   [op |-> name, user |-> u, queue |-> o.queue,
                    level |-> o.level]]
            /\ UNCHANGED response
    /\ UNCHANGED <<users, userSkills, exchanges, now, statusOut,
                 exchange_id_seq, other>>

BeginAccept(w, u, e) == Begin(w, "accept_exchange", u, accept_exchange(u, e))
BeginReject(w, u, e) == Begin(w, "reject_exchange", u, reject_exchange(u, e))
BeginComplete(w, u, e) ==
    Begin(w, "mark_exchange_complete", u, mark_exchange_complete(u, e))
BeginApprove(w, u, e) ==
    Begin(w, "admin_approve_exchange", u, admin_approve_exchange(u, e))
BeginApproveExchanges(w, u, S) ==
    Begin(w, "approve_exchanges", u, approve_exchanges(u, S))

\* The worker's next instance.save(); after the last one the handler answers.
Save(w) ==
    /\ inflight[w] # Idle
    /\ LET q == inflight[w].queue
       IN  /\ exchanges' = [exchanges EXCEPT ![Head(q).ex] = Saved(Head(q), now)]
           /\ IF Tail(q) = <<>>
              THEN /\ inflight' = [inflight EXCEPT ![w] = Idle]
                   /\ response' = Answer(inflight[w].op, inflight[w].level)
              ELSE /\ inflight' = [inflight EXCEPT ![w].queue = Tail(q)]
                   /\ UNCHANGED response
    /\ UNCHANGED <<users, userSkills, now, statusOut,
                 exchange_id_seq, other>>

\* ------------------------------------------------------ specifications
InitUsers ==
    [u \in Users |-> [is_staff |-> u = "carol", is_superuser |-> u = "carol"]]

\* alice offers Guitar, bob offers Chess, carol (staff) lists nothing.
InitSkills ==
    {[id |-> 1, user |-> "alice", skill |-> "Guitar", role |-> "offer"],
     [id |-> 2, user |-> "bob", skill |-> "Chess", role |-> "offer"]}

SkillIds == {s.id : s \in InitSkills}

Init ==
    /\ users = InitUsers
    /\ userSkills = InitSkills
    /\ userskill_id_seq = Cardinality(InitSkills)
    /\ exchanges = << >>
    /\ now = 1
    /\ response = NoAnswer
    /\ inflight = [w \in Workers |-> Idle]
    /\ statusOut = "none"
    /\ exchange_id_seq = 0
    /\ matches = <<>>
    /\ NoMail

Selections == SUBSET (DOMAIN exchanges) \ {{}}

\* The handlers treat all users alike, so the runs let alice (who offers a
\* skill) and carol (who offers none) initiate, towards anyone: bob
\* initiating is alice initiating with the two names exchanged.
Initiators == {"alice", "carol"}

Creates ==
    \/ \E u \in Initiators, tu \in Users, sid \in SkillIds :
          StartExchange(u, tu, sid)
    \/ \E u \in Initiators, usid \in SkillIds, my \in SkillIds \cup {0} :
          ProposeExchange(u, usid, my)

Updates ==
    \/ \E u \in Users, S \in Selections : MarkPendingApproval(u, S)
    \/ \E u \in Users, S \in Selections : ResetCompletion(u, S)

NextSerial ==
    \/ Tick
    \/ Creates
    \/ Updates
    \/ \E u \in Users, e \in ExIds : AcceptExchange(u, e)
    \/ \E u \in Users, e \in ExIds : RejectExchange(u, e)
    \/ \E u \in Users, e \in ExIds : MarkExchangeComplete(u, e)
    \/ \E u \in Users, e \in ExIds : AdminApproveExchange(u, e)
    \/ \E u \in Users, S \in Selections : ApproveExchanges(u, S)

SpecSerial == Init /\ [][NextSerial]_vars

\* No handler reads a date column, so Spec holds the clock still: every
\* request of a run falls within one reading of timezone.now().
Next ==
    \/ Creates
    \/ Updates
    \/ \E w \in Workers, u \in Users, e \in ExIds : BeginAccept(w, u, e)
    \/ \E w \in Workers, u \in Users, e \in ExIds : BeginReject(w, u, e)
    \/ \E w \in Workers, u \in Users, e \in ExIds : BeginComplete(w, u, e)
    \/ \E w \in Workers, u \in Users, e \in ExIds : BeginApprove(w, u, e)
    \/ \E w \in Workers, u \in Users, S \in Selections :
          BeginApproveExchanges(w, u, S)
    \/ \E w \in Workers : Save(w)

Spec == Init /\ [][Next]_vars

\* completion_status() on any row the table can hold (the admin change form
\* edits the three flags and status freely, so every combination is a row).
StatusRows ==
    {[NewExchange(u1, u2, "Guitar", "Chess", 1) EXCEPT
          !.status = st, !.user1_completed = c1, !.user2_completed = c2,
          !.admin_approved = ap] :
        u1 \in Users, u2 \in Users, st \in STATUS_CHOICES,
        c1 \in BOOLEAN, c2 \in BOOLEAN, ap \in BOOLEAN}

InitStatus ==
    /\ users = InitUsers
    /\ userSkills = InitSkills
    /\ userskill_id_seq = Cardinality(InitSkills)
    /\ \E x \in StatusRows : exchanges = (1 :> x)
    /\ now = 1
    /\ response = NoAnswer
    /\ inflight = [w \in Workers |-> Idle]
    /\ statusOut = "none"
    /\ exchange_id_seq = 1
    /\ matches = <<>>
    /\ NoMail

\* ExchangeAdmin.completion_indicator calls obj.completion_status().
CompletionIndicator(e) ==
    /\ statusOut' = completion_status(exchanges[e])
    /\ UNCHANGED <<users, userSkills, exchanges, now, response, inflight,
                 exchange_id_seq, other>>

NextStatus == \E e \in DOMAIN exchanges : CompletionIndicator(e)

SpecStatus == InitStatus /\ [][NextStatus]_vars

\* ------------------------------------------- user management (views.py)
\* The auth User rows that exist; only they can hold a session.
Accounts == DOMAIN users

\* user_to_delete.delete(): the collector deletes the User row and, through
\* on_delete=CASCADE, every UserSkill row of the user, every Exchange row
\* that names the user as user1 or as user2 and every Message row the user
\* sent or received.
Deleted(t) ==
    [users |-> [a \in Accounts \ {t} |-> users[a]],
     userSkills |-> {s \in userSkills : s.user # t},
     exchanges |-> [e \in {x \in DOMAIN exchanges :
                              /\ exchanges[x].user1 # t
                              /\ exchanges[x].user2 # t} |-> exchanges[e]],
     messages |-> [m \in {x \in DOMAIN messages :
                             /\ messages[x].sender # t
                             /\ messages[x].receiver # t} |-> messages[m]],
     level |-> <<"success">>]

\* A request that leaves every table as it is.
Refused(l) ==
    [users |-> users, userSkills |-> userSkills, exchanges |-> exchanges,
     messages |-> messages, level |-> l]

admin_delete_user(u, t) ==
    IF ~IsStaff(u) THEN Refused(<<"login">>)
    ELSE IF t \notin Accounts THEN Refused(<<"404">>)
    ELSE IF t = u THEN Refused(<<"error">>)
    ELSE Deleted(t)

\* admin_toggle_staff without the test user_to_toggle == request.user.
admin_toggle_staff_self(u, t) ==
    IF ~IsStaff(u) THEN Refused(<<"login">>)
    ELSE IF t \notin Accounts THEN Refused(<<"404">>)
    ELSE [Refused(<<"success">>) EXCEPT
             !.users = [users EXCEPT
                 ![t] = [is_staff |-> ~users[t].is_staff,
                         is_superuser |-> ~users[t].is_staff]]]

\* user_to_toggle.save() writes the two flags of the one User row.
admin_toggle_staff(u, t) ==
    IF ~IsStaff(u) THEN Refused(<<"login">>)
    ELSE IF t \notin Accounts THEN Refused(<<"404">>)
    ELSE IF t = u THEN Refused(<<"error">>)
    ELSE [Refused(<<"success">>) EXCEPT
             !.users = [users EXCEPT
                 ![t] = [is_staff |-> ~users[t].is_staff,
                         is_superuser |-> ~users[t].is_staff]]]

Manage(view, r) ==
    /\ users' = r.users
    /\ userSkills' = r.userSkills
    /\ exchanges' = r.exchanges
    /\ messages' = r.messages
    /\ response' = Answer(view, r.level)
    /\ UNCHANGED <<now, inflight, statusOut, exchange_id_seq, matches,
                 message_id_seq, thread, page, userskill_id_seq>>

AdminDeleteUser(u, t) == Manage("admin_delete_user", admin_delete_user(u, t))
AdminToggleStaff(u, t) == Manage("admin_toggle_staff", admin_toggle_staff(u, t))

\* SpecUsers: the serial handlers of the users that still have an account,
\* with the two user management handlers of the staff dashboard.
NextUsers ==
    \/ \E u \in Initiators \cap Accounts, tu \in Users, sid \in SkillIds :
          StartExchange(u, tu, sid)
    \/ \E u \in Initiators \cap Accounts, usid \in SkillIds, my \in SkillIds \cup {0} :
          ProposeExchange(u, usid, my)
    \/ \E u \in Accounts, e \in ExIds : AcceptExchange(u, e)
    \/ \E u \in Accounts, e \in ExIds : MarkExchangeComplete(u, e)
    \/ \E u \in Accounts, e \in ExIds : AdminApproveExchange(u, e)
    \/ \E u \in Accounts, t \in Users : AdminDeleteUser(u, t)
    \/ \E u \in Accounts, t \in Users : AdminToggleStaff(u, t)

SpecUsers == Init /\ [][NextUsers]_vars

\* SpecAdmin: the two user management handlers alone, one request at a time,
\* from any User table with a staff user in it. The flags is_staff and
\* is_superuser of a row are independent columns of auth_user, so a row may
\* start with either set alone; alice and bob share one pending exchange, so
\* that a delete has rows to cascade to.
Flags == [is_staff : BOOLEAN, is_superuser : BOOLEAN]

InitAdmin ==
    /\ users \in {f \in [Users -> Flags] : \E a \in Users : f[a].is_staff}
    /\ userSkills = InitSkills
    /\ userskill_id_seq = Cardinality(InitSkills)
    /\ exchanges = (1 :> NewExchange("alice", "bob", "Guitar", "Chess", 1))
    /\ now = 1
    /\ response = NoAnswer
    /\ inflight = [w \in Workers |-> Idle]
    /\ statusOut = "none"
    /\ exchange_id_seq = 1
    /\ matches = <<>>
    /\ NoMail

NextAdmin ==
    \/ \E u \in Accounts, t \in Users : AdminDeleteUser(u, t)
    \/ \E u \in Accounts, t \in Users : AdminToggleStaff(u, t)

SpecAdmin == InitAdmin /\ [][NextAdmin]_vars

\* ------------------------------------------- dashboard matches (views.py)
MaxSought == 10     \* skills a user may list besides Guitar and Piano
MatchSlice == 10    \* potential_matches = (...)[:10]
MatchLimit == 3     \* if len(matches) >= 3: break

\* The Skill rows of the dashboard runs, in primary key order.
Catalog == <<"Guitar", "Piano", "Chess", "Go", "Yoga", "Golf", "Judo", "Polo",
             "Sumo", "Zouk", "Lute", "Oboe", "Harp", "Tuba">>
Member == <<"alice", "bob", "carol">>

my_seeking_skills(u) ==
    {s.skill : s \in {r \in userSkills : r.user = u /\ r.role = "seek"}}

my_offering_skills(u) ==
    {s.skill : s \in {r \in userSkills : r.user = u /\ r.role = "offer"}}

\* The rows of a queryset in the order the database returns them. UserSkill
\* has no Meta.ordering and the query no order_by: the table is read in
\* primary key order.
RECURSIVE Iterate(_)
Iterate(S) ==
    IF S = {} THEN <<>> ELSE <<First(S)>> \o Iterate(S \ {First(S)})

Slice(q, n) == SubSeq(q, 1, IF Len(q) < n THEN Len(q) ELSE n)

\* UserSkill.objects.filter(skill_id__in=my_seeking_skills, role="offer")
\*     .exclude(user=user)
Candidates(u) ==
    {s \in userSkills : /\ s.skill \in my_seeking_skills(u)
                        /\ s.role = "offer"
                        /\ s.user # u}

potential_matches(u) == Slice(Iterate(Candidates(u)), MatchSlice)

\* Mutant: the seek query without skill_id__in=my_offering_skills.
their_seeking_anything(u, other_user) ==
    {s \in userSkills : s.user = other_user /\ s.role = "seek"}

\* UserSkill.objects.filter(user=other_user, role="seek",
\*                          skill_id__in=my_offering_skills)
their_seeking(u, other_user) ==
    {s \in userSkills : /\ s.user = other_user
                        /\ s.role = "seek"
                        /\ s.skill \in my_offering_skills(u)}

\* The for loop over potential_matches, with its break.
RECURSIVE Collect(_, _, _)
Collect(u, q, found) ==
    IF q = <<>> \/ Len(found) >= MatchLimit THEN found
    ELSE LET match_skill == Head(q)
             seeking == their_seeking(u, match_skill.user)
         IN  IF seeking = {} THEN Collect(u, Tail(q), found)
             ELSE Collect(u, Tail(q),
                          Append(found,
                                 [user_id |-> match_skill.user,
                                  offer |-> match_skill.skill,
                                  want |-> First(seeking).skill]))

find_matches(u) ==
    IF my_seeking_skills(u) # {} /\ my_offering_skills(u) # {}
    THEN Collect(u, potential_matches(u), <<>>)
    ELSE <<>>

\* dashboard_view renders the matches of the user who is logged in.
Dashboard(u) ==
    /\ matches' = find_matches(u)
    /\ response' = Answer("dashboard", <<>>)
    /\ UNCHANGED <<users, userSkills, exchanges, now, inflight, statusOut,
                 exchange_id_seq, mail, userskill_id_seq>>

\* The UserSkill row of the i-th member for the k-th skill in a role; a
\* member's rows were added offers first, alice's before bob's before carol's.
Listed(i, role, k) ==
    [id |-> (i - 1) * 2 * Len(Catalog)
            + (IF role = "offer" THEN 0 ELSE Len(Catalog)) + k,
     user |-> Member[i], skill |-> Catalog[k], role |-> role]

Listing(i, offers, seeks) ==
    {Listed(i, "offer", k) : k \in offers} \cup
    {Listed(i, "seek", k) : k \in seeks}

\* The stores of the dashboard runs. alice offers any of Guitar and Piano and
\* seeks the first few of the other skills; bob and carol each offer the
\* first few of the other skills; bob seeks Guitar or nothing, carol none,
\* the first or both of Guitar and Piano.
InitMatch ==
    /\ users = InitUsers
    /\ \E a \in SUBSET {1, 2}, k \in 0..MaxSought,
          bo \in 0..MaxSought, bs \in 0..1,
          co \in 0..MaxSought, cs \in 0..2 :
          userSkills = Listing(1, a, 3..(2 + k))
                       \cup Listing(2, 3..(2 + bo), 1..bs)
                       \cup Listing(3, 3..(2 + co), 1..cs)
    /\ userskill_id_seq = Len(Member) * 2 * Len(Catalog)
    /\ exchanges = << >>
    /\ now = 1
    /\ response = NoAnswer
    /\ inflight = [w \in Workers |-> Idle]
    /\ statusOut = "none"
    /\ exchange_id_seq = 0
    /\ matches = <<>>
    /\ NoMail

NextMatch == \E u \in Users : Dashboard(u)

SpecMatch == InitMatch /\ [][NextMatch]_vars

\* ------------------------------------------- messages_view (views.py)
MaxMsg == 2         \* Message rows that may be created

\* request.POST.get("content", ""), a string as its sequence of characters.
Contents == {<<" ">>, <<" ", "h", " ">>}

Requests ==
    {[method |-> "GET", content |-> <<>>]} \cup
    {[method |-> "POST", content |-> c] : c \in Contents}

\* The user_id of the URL: a user, none (the bare /messages/ page) or an id
\* no User row has.
Threads == Users \cup {"none", "ghost"}

RECURSIVE lstrip(_)
lstrip(c) == IF c # <<>> /\ Head(c) = " " THEN lstrip(Tail(c)) ELSE c

RECURSIVE rstrip(_)
rstrip(c) ==
    IF c # <<>> /\ c[Len(c)] = " " THEN rstrip(SubSeq(c, 1, Len(c) - 1))
    ELSE c

\* Mutant: the content as it was sent.
strip_nothing(c) == c

\* str.strip()
strip(c) == rstrip(lstrip(c))

\* Message.objects.create(sender, receiver, content): timestamp is
\* auto_now_add and is_read takes its default.
NewMessage(u, c, content, t) ==
    [sender |-> u, receiver |-> c, content |-> content, timestamp |-> t,
     is_read |-> FALSE]

\* set(list(sent_to_ids) + list(received_from_ids))
conversation_user_ids(u) ==
    {messages[m].receiver :
        m \in {x \in DOMAIN messages : messages[x].sender = u}} \cup
    {messages[m].sender :
        m \in {x \in DOMAIN messages : messages[x].receiver = u}}

\* The ids of the messages between the two users.
user_messages(u, uid) ==
    {m \in DOMAIN messages :
        \/ messages[m].sender = u /\ messages[m].receiver = uid
        \/ messages[m].sender = uid /\ messages[m].receiver = u}

\* A queryset of Message rows in Meta.ordering / order_by("timestamp"): rows
\* of one timestamp come in primary key order.
Earliest(S) ==
    CHOOSE m \in S : \A o \in S :
        \/ messages[m].timestamp < messages[o].timestamp
        \/ messages[m].timestamp = messages[o].timestamp /\ m <= o

\* max(user_messages, key=lambda m: m.timestamp): the first of the latest.
last_message(u, uid) ==
    CHOOSE m \in user_messages(u, uid) : \A o \in user_messages(u, uid) :
        \/ messages[m].timestamp > messages[o].timestamp
        \/ messages[m].timestamp = messages[o].timestamp /\ m <= o

\* Mutant: the count without "not m.is_read".
unread_count_of_all(u, uid) ==
    Cardinality({m \in user_messages(u, uid) :
                    /\ messages[m].sender = uid
                    /\ messages[m].receiver = u})

unread_count(u, uid) ==
    Cardinality({m \in user_messages(u, uid) :
                    /\ messages[m].sender = uid
                    /\ messages[m].receiver = u
                    /\ ~messages[m].is_read})

\* The primary key of a User row.
UserId(u) == CHOOSE i \in DOMAIN Member : Member[i] = u

\* conversations.sort(key=last message timestamp, reverse=True) over the
\* entries appended in the iteration order of the set of user ids: a stable
\* sort, so entries of one timestamp stay in that order.
RECURSIVE SortConversations(_, _)
SortConversations(u, S) ==
    IF S = {} THEN <<>>
    ELSE LET stamp(c) == messages[last_message(u, c)].timestamp
             top == CHOOSE c \in S : \A o \in S :
                        \/ stamp(c) > stamp(o)
                        \/ stamp(c) = stamp(o) /\ UserId(c) <= UserId(o)
         IN  <<[user |-> top,
                last_message |-> last_message(u, top),
                unread_count |-> unread_count(u, top)]>>
             \o SortConversations(u, S \ {top})

conversations(u) == SortConversations(u, conversation_user_ids(u))

\* Mutant: the UPDATE without sender=selected_user.
mark_read_from_anyone(u, c) ==
    [m \in DOMAIN messages |->
        IF messages[m].receiver = u /\ ~messages[m].is_read
        THEN [messages[m] EXCEPT !.is_read = TRUE]
        ELSE messages[m]]

\* Message.objects.filter(sender=selected_user, receiver=current_user,
\*                        is_read=False).update(is_read=True)
mark_read(u, c) ==
    [m \in DOMAIN messages |->
        IF /\ messages[m].sender = c
           /\ messages[m].receiver = u
           /\ ~messages[m].is_read
        THEN [messages[m] EXCEPT !.is_read = TRUE]
        ELSE messages[m]]

\* The rows of a queryset as the template receives them.
RECURSIVE Fetch(_)
Fetch(S) ==
    IF S = {} THEN <<>>
    ELSE LET m == Earliest(S)
         IN  <<[id |-> m, sender |-> messages[m].sender,
                receiver |-> messages[m].receiver,
                content |-> messages[m].content,
                timestamp |-> messages[m].timestamp,
                is_read |-> messages[m].is_read]>> \o Fetch(S \ {m})

\* messages_list, a lazy queryset: the SELECT runs when the template
\* iterates it.
messages_list(u, c) == Fetch(user_messages(u, c))

\* The Message row the request under way is still to create.
Creating == IF thread.content # <<>> THEN 1 ELSE 0

\* The view a response answers for, with the method of its request.
Route(method) == IF method = "POST" THEN "POST messages" ELSE "GET messages"

\* request.POST.get("content", "").strip() of a POST; a GET sends nothing.
Content(req) == IF req.method = "POST" THEN strip(req.content) ELSE <<>>

\* messages_view from its first line to its response, nothing in between:
\* the conversation list, the lookup of the selected user, the mark-read
\* UPDATE, and then the INSERT and redirect of a POST with content, or else
\* the rendering of messages.html, which evaluates messages_list.
MessagesView(u, c, req) ==
    /\ IF c = "none"
       THEN /\ page' = [conversations |-> conversations(u),
                        selected_user |-> "none", messages |-> <<>>]
            /\ response' = Answer(Route(req.method), <<>>)
            /\ UNCHANGED <<messages, message_id_seq>>
       ELSE IF c \notin Accounts
       THEN /\ page' = NoPage
            /\ response' = Answer(Route(req.method), <<"404">>)
            /\ UNCHANGED <<messages, message_id_seq>>
       ELSE IF Content(req) # <<>>
       THEN /\ message_id_seq + Creating < MaxMsg
            /\ messages' = mark_read(u, c) @@
                    (message_id_seq + 1 :>
                        NewMessage(u, c, Content(req), now))
            /\ message_id_seq' = message_id_seq + 1
            /\ page' = NoPage
            /\ response' = Answer(Route(req.method), <<"redirect">>)
       ELSE /\ messages' = mark_read(u, c)
            /\ page' = [conversations |-> conversations(u),
                        selected_user |-> c,
                        messages |-> messages_list(u, c)']
            /\ response' = Answer(Route(req.method), <<>>)
            /\ UNCHANGED message_id_seq
    /\ UNCHANGED <<users, userSkills, exchanges, now, inflight, statusOut,
                 exchange_id_seq, matches, thread, userskill_id_seq>>

\* The same request in two steps, with the requests of other workers in
\* between. MessagesOpen runs it up to the mark-read UPDATE.
MessagesOpen(u, c, req) ==
    /\ thread = NoThread
    /\ c \in Accounts
    /\ Content(req) # <<>> => message_id_seq < MaxMsg
    /\ messages' = mark_read(u, c)
    /\ thread' = [user |-> u, counterpart |-> c, method |-> req.method,
                  content |-> Content(req),
                  conversations |-> conversations(u)]
    /\ UNCHANGED <<users, userSkills, exchanges, now, inflight, statusOut,
                 exchange_id_seq, matches, message_id_seq, page, response,
                 userskill_id_seq>>

\* MessagesFinish runs the rest: the INSERT and the redirect, or the
\* rendering, where the SELECT of messages_list runs.
MessagesFinish ==
    /\ thread # NoThread
    /\ IF thread.content # <<>>
       THEN /\ messages' = messages @@
                    (message_id_seq + 1 :>
                        NewMessage(thread.user, thread.counterpart,
                                   thread.content, now))
            /\ message_id_seq' = message_id_seq + 1
            /\ page' = NoPage
            /\ response' = Answer(Route(thread.method), <<"redirect">>)
       ELSE /\ page' = [conversations |-> thread.conversations,
                        selected_user |-> thread.counterpart,
                        messages |-> messages_list(thread.user,
                                                   thread.counterpart)]
            /\ response' = Answer(Route(thread.method), <<>>)
            /\ UNCHANGED <<messages, message_id_seq>>
    /\ thread' = NoThread
    /\ UNCHANGED <<users, userSkills, exchanges, now, inflight, statusOut,
                 exchange_id_seq, matches, userskill_id_seq>>

\* SpecMsg: messages_view requests one after another, as the clock moves on.
NextMsg ==
    \/ Tick
    \/ \E u \in Users, c \in Threads, req \in Requests :
          MessagesView(u, c, req)

SpecMsg == Init /\ [][NextMsg]_vars

\* SpecMsgRace: the messages_view requests of two users, one request at a
\* time held at the point where it has written and has more to do while the
\* others run. The clock is held still, as in Spec.
Correspondents == {"alice", "bob"}

NextMsgRace ==
    \/ \E u \in Correspondents, c \in Correspondents, req \in Requests :
          MessagesView(u, c, req)
    \/ \E u \in Correspondents, c \in Correspondents, req \in Requests :
          MessagesOpen(u, c, req)
    \/ MessagesFinish

SpecMsgRace == Init /\ [][NextMsgRace]_vars

\* ------------------------------------------- manage_skills (views.py)
MaxSkillRows == 4   \* UserSkill rows that may ever be created

Roles == {"offer", "seek"}

\* What a submitted form of the formset says about an existing row of the
\* user: nothing new, new values of skill and role, or the DELETE box.
Edits ==
    [op : {"change"}, skill : Skills, role : Roles] \cup
    {[op |-> o, skill |-> "none", role |-> "none"] : o \in {"keep", "delete"}}

\* The one extra form (extra=1): left blank, filled in, or filled in without
\* a skill, which the required field refuses.
Extras ==
    [op : {"add"}, skill : Skills, role : Roles] \cup
    {[op |-> o, skill |-> "none", role |-> "none"] : o \in {"blank", "invalid"}}

\* queryset = UserSkill.objects.filter(user=request.user)
OwnRows(u) == {s \in userSkills : s.user = u}

\* The submissions of a user: one form for each row of the queryset and the
\* extra form.
Submissions(u) ==
    [forms : [{s.id : s \in OwnRows(u)} -> Edits], extra : Extras]

\* formset.is_valid(): every form that is not marked for deletion is valid.
\* The forms carry skill, role, proficiency and experience_years but not
\* user, so neither ModelForm.validate_unique() nor the formset's own
\* validate_unique() checks unique_together (user, skill, role): a check
\* that names a field the form excludes is skipped.
is_valid(sub) == sub.extra.op # "invalid"

\* formset.save(commit=False): the changed rows of the queryset in primary
\* key order, then the new row; id 0 is an instance without a primary key.
RECURSIVE Changed(_, _)
Changed(sub, ids) ==
    IF ids = {} THEN <<>>
    ELSE LET i == CHOOSE x \in ids : \A o \in ids : x <= o
         IN  (IF sub.forms[i].op = "change"
              THEN <<[id |-> i, skill |-> sub.forms[i].skill,
                      role |-> sub.forms[i].role]>>
              ELSE <<>>) \o Changed(sub, ids \ {i})

instances(sub) ==
    Changed(sub, DOMAIN sub.forms) \o
    (IF sub.extra.op = "add"
     THEN <<[id |-> 0, skill |-> sub.extra.skill, role |-> sub.extra.role]>>
     ELSE <<>>)

\* formset.deleted_objects
deleted_objects(sub) == {i \in DOMAIN sub.forms : sub.forms[i].op = "delete"}

\* The unique index of unique_together refuses the row.
IntegrityError(rows, u, inst) ==
    \E r \in rows : /\ r.id # inst.id
                    /\ r.user = u
                    /\ r.skill = inst.skill
                    /\ r.role = inst.role

\* instance.user = request.user; instance.save(): an UPDATE of the row, or an
\* INSERT with the next primary key. Each save commits by itself.
SaveInstance(rows, seq, u, inst) ==
    IF inst.id = 0
    THEN rows \cup {[id |-> seq + 1, user |-> u, skill |-> inst.skill,
                     role |-> inst.role]}
    ELSE {r \in rows : r.id # inst.id} \cup
         {[id |-> inst.id, user |-> u, skill |-> inst.skill,
           role |-> inst.role]}

\* for instance in instances: ...save(), up to the first IntegrityError.
RECURSIVE SaveEach(_, _, _, _)
SaveEach(rows, seq, u, q) ==
    IF q = <<>> THEN [rows |-> rows, seq |-> seq, failed |-> FALSE]
    ELSE IF IntegrityError(rows, u, Head(q))
    THEN [rows |-> rows, seq |-> seq, failed |-> TRUE]
    ELSE SaveEach(SaveInstance(rows, seq, u, Head(q)),
                  IF Head(q).id = 0 THEN seq + 1 ELSE seq, u, Tail(q))

\* The POST of manage_skills.
manage_skills(u, sub) ==
    IF ~is_valid(sub)
    THEN [rows |-> userSkills, seq |-> userskill_id_seq, level |-> <<"error">>]
    ELSE LET saved == SaveEach(userSkills, userskill_id_seq, u, instances(sub))
         IN  IF saved.failed
             THEN [rows |-> saved.rows, seq |-> saved.seq, level |-> <<"500">>]
             ELSE [rows |-> {r \in saved.rows : r.id \notin deleted_objects(sub)},
                   seq |-> saved.seq, level |-> <<"redirect">>]

ManageSkills(u, sub) ==
    /\ sub.extra.op = "add" => userskill_id_seq < MaxSkillRows
    /\ userSkills' = manage_skills(u, sub).rows
    /\ userskill_id_seq' = manage_skills(u, sub).seq
    /\ response' = Answer("manage_skills", manage_skills(u, sub).level)
    /\ UNCHANGED <<users, exchanges, now, inflight, statusOut,
                 exchange_id_seq, matches, mail>>

\* SpecSkills: the manage_skills submissions of alice and bob.
NextSkills ==
    \E u \in Correspondents : \E sub \in Submissions(u) : ManageSkills(u, sub)

SpecSkills == Init /\ [][NextSkills]_vars

\* ================================================================ claims
Rows == DOMAIN exchanges

\* Every other row, and every table but Exchange, is as it was.
OnlyRow(e) ==
    /\ DOMAIN exchanges' = DOMAIN exchanges
    /\ \A o \in Rows \ {e} : exchanges'[o] = exchanges[o]
    /\ UNCHANGED <<users, userSkills>>

StoreUnchanged == UNCHANGED <<users, userSkills, exchanges>>

\* C1: in every state that any interleaving of the read and save steps of the
\* handlers and admin actions reaches, a row with admin_approved set has both
\* user1_completed and user2_completed set.
ApprovedImpliesCompleted ==
    \A e \in Rows :
        exchanges[e].admin_approved =>
            exchanges[e].user1_completed /\ exchanges[e].user2_completed

\* An approved row while another worker still holds a save of that row that
\* it prepared from an earlier read.
ApprovedWithSavePending ==
    \E e \in Rows, w \in Workers :
        /\ exchanges[e].admin_approved
        /\ inflight[w] # Idle
        /\ Head(inflight[w].queue).ex = e
        /\ ~Head(inflight[w].queue).row.admin_approved

\* C2: over handlers and admin actions that run one after another, a row's
\* status changes only pending -> active, pending -> cancelled or
\* active -> completed.
StatusStep(a, b) ==
    \/ a = b
    \/ a = "pending" /\ b = "active"
    \/ a = "pending" /\ b = "cancelled"
    \/ a = "active" /\ b = "completed"

StatusMonotonic ==
    [][\A e \in Rows : StatusStep(exchanges[e].status, exchanges'[e].status)]_vars

\* One row completed with its flags reset and another cancelled: every kind
\* of status change has happened, and both rows are ones hold-for-review and
\* the handlers leave where they are.
CompletedAndCancelled ==
    \E e \in Rows, o \in Rows :
        /\ exchanges[e].status = "completed" /\ ~exchanges[e].admin_approved
        /\ exchanges[o].status = "cancelled"

\* C3: the staff approval (single handler and bulk action) changes a row iff
\* both completion flags are set and admin_approved is not; then it sets
\* admin_approved, stamps admin_approved_date and sets status completed;
\* otherwise no stored field changes (the handler answers with an error when
\* the flags are not both set, with a notice when already approved).
Ready(x) == x.user1_completed /\ x.user2_completed /\ ~x.admin_approved

ApprovedFrom(x, y) ==
    /\ y.admin_approved
    /\ y.admin_approved_date = now
    /\ y.status = "completed"
    /\ [y EXCEPT !.admin_approved = x.admin_approved,
                 !.admin_approved_date = x.admin_approved_date,
                 !.status = x.status,
                 !.last_updated = x.last_updated] = x

ApproveOnlyWhenReady ==
    [][/\ \A u \in Users, e \in Rows :
            AdminApproveExchange(u, e) =>
                /\ OnlyRow(e)
                /\ IF IsStaff(u) /\ Ready(exchanges[e])
                   THEN ApprovedFrom(exchanges[e], exchanges'[e])
                   ELSE exchanges'[e] = exchanges[e]
                /\ IsStaff(u) /\ ~both_users_completed(exchanges[e])
                      => response'.level = <<"error">>
                /\ IsStaff(u) /\ both_users_completed(exchanges[e])
                              /\ exchanges[e].admin_approved
                      => response'.level = <<"info">>
       /\ \A u \in Users, S \in Selections :
            ApproveExchanges(u, S) =>
                /\ DOMAIN exchanges' = DOMAIN exchanges
                /\ UNCHANGED <<users, userSkills>>
                /\ \A e \in Rows :
                    IF AdminSitePermitted(u) /\ e \in S /\ Ready(exchanges[e])
                    THEN ApprovedFrom(exchanges[e], exchanges'[e])
                    ELSE exchanges'[e] = exchanges[e]]_vars

\* A row the approval has just stamped beside a row that is not ready, which
\* an approval of both leaves as it is.
ApprovedBesideUnready ==
    \E e \in Rows, o \in Rows :
        /\ exchanges[e].admin_approved
        /\ exchanges[e].admin_approved_date = now
        /\ exchanges[e].status = "completed"
        /\ exchanges[o].status = "active"
        /\ ~both_users_completed(exchanges[o])
        /\ response = Answer("admin_approve_exchange", <<"error">>)

\* C4: mark_exchange_complete acts only for a participant of an active
\* exchange; it sets the caller's own completion flag and date and leaves
\* status, the other participant's flag and date, admin_approved and its date
\* as they were, also when both flags are then set; for anyone else, or on an
\* exchange that is not active, nothing is modified.
CompleteFrame ==
    [][\A u \in Users, e \in ExIds :
          MarkExchangeComplete(u, e) =>
              IF ~(/\ Exists(e)
                   /\ u \in {exchanges[e].user1, exchanges[e].user2}
                   /\ exchanges[e].status = "active")
              THEN StoreUnchanged
              ELSE LET x == exchanges[e]
                       y == exchanges'[e]
                   IN  /\ OnlyRow(e)
                       /\ y.status = x.status
                       /\ y.admin_approved = x.admin_approved
                       /\ y.admin_approved_date = x.admin_approved_date
                       /\ y.user1 = x.user1 /\ y.user2 = x.user2
                       /\ y.skill1 = x.skill1 /\ y.skill2 = x.skill2
                       /\ IF u = x.user1
                          THEN /\ y.user1_completed
                               /\ ~x.user1_completed
                                     => y.user1_completed_date = now
                               /\ y.user2_completed = x.user2_completed
                               /\ y.user2_completed_date = x.user2_completed_date
                          ELSE /\ y.user2_completed
                               /\ ~x.user2_completed
                                     => y.user2_completed_date = now
                               /\ y.user1_completed = x.user1_completed
                               /\ y.user1_completed_date = x.user1_completed_date]_vars

\* Both participants have marked an exchange that is still active, the second
\* at the current time, and the handler has given the review notice.
BothMarkedStillActive ==
    \E e \in Rows :
        /\ exchanges[e].status = "active"
        /\ exchanges[e].user1 # exchanges[e].user2
        /\ exchanges[e].user1_completed /\ exchanges[e].user2_completed
        /\ exchanges[e].user2_completed_date = now
        /\ exchanges[e].user1_completed_date < now
        /\ response = Answer("mark_exchange_complete", <<"success", "info">>)

\* The completion flag mark_exchange_complete tests for caller u of row x.
OwnFlag(x, u) == IF u = x.user1 THEN x.user1_completed ELSE x.user2_completed

\* C5 as stated: whenever the caller's flag is already set, a further
\* mark_exchange_complete by that participant changes no stored field and
\* answers with an informational message, not an error.
RemarkIsInformational ==
    [][\A u \in Users, e \in Rows :
          /\ u \in {exchanges[e].user1, exchanges[e].user2}
          /\ OwnFlag(exchanges[e], u)
          /\ MarkExchangeComplete(u, e)
          => /\ StoreUnchanged
             /\ Head(response'.level) = "info"]_vars

\* C5 as amended: the same on an exchange that is still active; on any
\* exchange, active or not, the further call changes no stored field.
RemarkIsIdempotent ==
    [][\A u \in Users, e \in Rows :
          /\ u \in {exchanges[e].user1, exchanges[e].user2}
          /\ OwnFlag(exchanges[e], u)
          /\ MarkExchangeComplete(u, e)
          => /\ StoreUnchanged
             /\ exchanges[e].status = "active"
                   => /\ Head(response'.level) = "info"
                      /\ \A i \in DOMAIN response'.level :
                            response'.level[i] \notin {"error", "404"}]_vars

\* A participant has marked at an earlier time and marks again: the row keeps
\* its earlier stamps and the handler answers with the notice alone.
RemarkedLater ==
    \E e \in Rows :
        /\ exchanges[e].status = "active"
        /\ exchanges[e].user1_completed /\ ~exchanges[e].user2_completed
        /\ exchanges[e].user1_completed_date < now
        /\ exchanges[e].last_updated < now
        /\ response = Answer("mark_exchange_complete", <<"info">>)

\* C6 as stated: accept_exchange and reject_exchange act only for user2 of a
\* pending exchange, where they set status (active, cancelled) and change
\* nothing else; for anyone else or on another status they change nothing.
AcceptRejectOnlyStatus ==
    [][\A u \in Users, e \in ExIds :
          /\ AcceptExchange(u, e) =>
                IF Exists(e) /\ exchanges[e].user2 = u
                             /\ exchanges[e].status = "pending"
                THEN /\ OnlyRow(e)
                     /\ exchanges'[e] = [exchanges[e] EXCEPT !.status = "active"]
                ELSE StoreUnchanged
          /\ RejectExchange(u, e) =>
                IF Exists(e) /\ exchanges[e].user2 = u
                             /\ exchanges[e].status = "pending"
                THEN /\ OnlyRow(e)
                     /\ exchanges'[e] =
                            [exchanges[e] EXCEPT !.status = "cancelled"]
                ELSE StoreUnchanged]_vars

\* C6 as amended: the same, except that the save also re-stamps last_updated.
AcceptRejectStatusAndStamp ==
    [][\A u \in Users, e \in ExIds :
          /\ AcceptExchange(u, e) =>
                IF Exists(e) /\ exchanges[e].user2 = u
                             /\ exchanges[e].status = "pending"
                THEN /\ OnlyRow(e)
                     /\ exchanges'[e] = [exchanges[e] EXCEPT
                            !.status = "active", !.last_updated = now]
                ELSE StoreUnchanged
          /\ RejectExchange(u, e) =>
                IF Exists(e) /\ exchanges[e].user2 = u
                             /\ exchanges[e].status = "pending"
                THEN /\ OnlyRow(e)
                     /\ exchanges'[e] = [exchanges[e] EXCEPT
                            !.status = "cancelled", !.last_updated = now]
                ELSE StoreUnchanged]_vars

\* One proposal accepted and one declined, each at a later time than it was
\* made, between two different users.
AcceptedAndDeclined ==
    \E e \in Rows, o \in Rows :
        /\ exchanges[e].user1 # exchanges[e].user2
        /\ exchanges[e].status = "active" /\ exchanges[e].last_updated = now
        /\ exchanges[o].status = "cancelled" /\ exchanges[o].last_updated < now
        /\ ~exchanges[e].user1_completed /\ ~exchanges[e].user2_completed

\* C7: reset_completion clears the three flags and the three dates of every
\* selected row, whatever its state, and changes neither the status (nor any
\* other column) of a selected row nor any column of an unselected row.
ResetFrame ==
    [][\A u \in Users, S \in Selections :
          ResetCompletion(u, S) /\ AdminSitePermitted(u) =>
              /\ DOMAIN exchanges' = DOMAIN exchanges
              /\ UNCHANGED <<users, userSkills>>
              /\ \A e \in Rows \ S : exchanges'[e] = exchanges[e]
              /\ \A e \in S :
                    LET x == exchanges[e]
                        y == exchanges'[e]
                    IN  /\ ~y.user1_completed /\ ~y.user2_completed
                        /\ ~y.admin_approved
                        /\ y.user1_completed_date = NullDate
                        /\ y.user2_completed_date = NullDate
                        /\ y.admin_approved_date = NullDate
                        /\ y.status = x.status
                        /\ y.last_updated = x.last_updated
                        /\ y.user1 = x.user1 /\ y.user2 = x.user2
                        /\ y.skill1 = x.skill1 /\ y.skill2 = x.skill2]_vars

\* A completed row whose flags a reset has cleared, beside an unselected row
\* that keeps a completion flag and its date.
ResetBesideUnselected ==
    \E e \in Rows, o \in Rows :
        /\ exchanges[e].status = "completed"
        /\ ~exchanges[e].admin_approved
        /\ ~exchanges[e].user1_completed /\ ~exchanges[e].user2_completed
        /\ exchanges[e].admin_approved_date = NullDate
        /\ exchanges[o].user1_completed
        /\ exchanges[o].user1_completed_date # NullDate
        /\ response = Answer("reset_completion", <<"info">>)

\* C8: completion_status() is decided by (admin_approved, user1_completed,
\* user2_completed) alone, in this order of precedence over all eight
\* combinations, whatever the status, and it modifies nothing.
StatusTable(ap, c1, c2) ==
    CASE ap = TRUE  -> "Admin Approved"
      [] ap = FALSE /\ c1 = TRUE  /\ c2 = TRUE  -> "Awaiting Admin Approval"
      [] ap = FALSE /\ c1 = TRUE  /\ c2 = FALSE -> "Partially Complete"
      [] ap = FALSE /\ c1 = FALSE /\ c2 = TRUE  -> "Partially Complete"
      [] ap = FALSE /\ c1 = FALSE /\ c2 = FALSE -> "In Progress"

StatusIsTable ==
    [][/\ \A e \in Rows :
            CompletionIndicator(e) =>
                statusOut' = StatusTable(exchanges[e].admin_approved,
                                         exchanges[e].user1_completed,
                                         exchanges[e].user2_completed)
       /\ exchanges' = exchanges]_vars

\* An approved row with both completion flags set and a status other than
\* completed has been shown as approved.
ApprovedShownWhateverStatus ==
    \E e \in Rows :
        /\ exchanges[e].admin_approved
        /\ exchanges[e].user1_completed /\ exchanges[e].user2_completed
        /\ exchanges[e].status = "dispute"
        /\ statusOut = "Admin Approved"

\* C9: the lifecycle runs step by step with these observations: alice
\* proposes Guitar for bob's Chess -> status pending; bob accepts -> active;
\* alice marks complete -> Partially Complete; bob marks complete -> Awaiting
\* Admin Approval with status still active; staff approves -> status
\* completed and Admin Approved.
Fresh(x) == ~x.user1_completed /\ ~x.user2_completed /\ ~x.admin_approved

Lifecycle ==
    [][/\ ProposeExchange("alice", 2, 1) =>
            /\ response'.level = <<"success">>
            /\ DOMAIN exchanges' = Rows \cup {NextId}
            /\ exchanges'[NextId].status = "pending"
            /\ exchanges'[NextId].user1 = "alice"
            /\ exchanges'[NextId].user2 = "bob"
            /\ exchanges'[NextId].skill1 = "Guitar"
            /\ exchanges'[NextId].skill2 = "Chess"
            /\ completion_status(exchanges'[NextId]) = "In Progress"
       /\ \A e \in Rows :
            LET x == exchanges[e]
                y == exchanges'[e]
            IN  x.user1 # x.user2 =>
                /\ x.status = "pending" /\ AcceptExchange(x.user2, e)
                      => y.status = "active"
                /\ x.status = "active" /\ Fresh(x)
                                       /\ MarkExchangeComplete(x.user1, e)
                      => /\ completion_status(y) = "Partially Complete"
                         /\ y.status = "active"
                /\ x.status = "active" /\ x.user1_completed
                                       /\ ~x.user2_completed
                                       /\ ~x.admin_approved
                                       /\ MarkExchangeComplete(x.user2, e)
                      => /\ completion_status(y) = "Awaiting Admin Approval"
                         /\ y.status = "active"
                /\ x.status = "active"
                      /\ completion_status(x) = "Awaiting Admin Approval"
                      /\ AdminApproveExchange("carol", e)
                      => /\ y.status = "completed"
                         /\ completion_status(y) = "Admin Approved"]_vars

\* The end of the run: alice's Guitar-for-Chess exchange with bob, marked by
\* alice, then by bob, then approved, each at or after the one before.
LifecycleDone ==
    \E e \in Rows :
        /\ exchanges[e].user1 = "alice" /\ exchanges[e].user2 = "bob"
        /\ exchanges[e].skill1 = "Guitar" /\ exchanges[e].skill2 = "Chess"
        /\ exchanges[e].status = "completed"
        /\ completion_status(exchanges[e]) = "Admin Approved"
        /\ exchanges[e].user1_completed_date < exchanges[e].user2_completed_date
        /\ exchanges[e].admin_approved_date = exchanges[e].last_updated
        /\ response = Answer("admin_approve_exchange", <<"success">>)

\* C10: no lost update. A save of mark_exchange_complete that falls after
\* another request's save of the same row clears neither completion flag,
\* does not take admin_approved back and does not reopen a completed row.
NoLostUpdate ==
    [][\A w \in Workers :
          inflight[w].op = "mark_exchange_complete" /\ Save(w) =>
              LET e == Head(inflight[w].queue).ex
                  x == exchanges[e]
                  y == exchanges'[e]
              IN  /\ x.user1_completed => y.user1_completed
                  /\ x.user2_completed => y.user2_completed
                  /\ x.admin_approved => y.admin_approved
                  /\ x.status = "completed" => y.status = "completed"]_vars

\* C11: every Exchange row that was ever created still exists, whatever
\* handlers and admin actions have run since, admin_delete_user on one of
\* its participants included (the AutoField sequence counts the rows created).
CreatedExchangesRemain ==
    \A e \in 1..exchange_id_seq : e \in DOMAIN exchanges

\* The user lists the skill in the role.
Lists(u, skill, role) ==
    \E r \in userSkills : r.user = u /\ r.skill = skill /\ r.role = role

\* C12: every entry of find_matches(u) names a counterpart other than u, its
\* 'offer' is a skill the counterpart offers and u seeks, its 'want' a skill
\* the counterpart seeks and u offers; a user who seeks nothing or offers
\* nothing gets no entry.
MatchesAreReciprocal ==
    [][\A u \in Users :
          Dashboard(u) =>
              /\ \A i \in 1..Len(matches') :
                    LET m == matches'[i]
                    IN  /\ m.user_id # u
                        /\ Lists(m.user_id, m.offer, "offer")
                        /\ Lists(u, m.offer, "seek")
                        /\ Lists(m.user_id, m.want, "seek")
                        /\ Lists(u, m.want, "offer")
              /\ (\A s \in Skills \cup {Catalog[k] : k \in DOMAIN Catalog} :
                     ~Lists(u, s, "seek"))
                    => matches' = <<>>
              /\ (\A s \in Skills \cup {Catalog[k] : k \in DOMAIN Catalog} :
                     ~Lists(u, s, "offer"))
                    => matches' = <<>>]_vars

\* A dashboard of three matches with two counterparts, the second of whom
\* seeks Piano as well, which the user does not offer.
ThreeMatchesTwoCounterparts ==
    /\ response = Answer("dashboard", <<>>)
    /\ Len(matches) = 3
    /\ matches[1].user_id # matches[3].user_id
    /\ \E u \in Users :
          /\ \A i \in 1..3 : Lists(u, matches[i].want, "offer")
          /\ ~Lists(u, "Piano", "offer")
          /\ Lists(matches[3].user_id, "Piano", "seek")

\* The offer rows of other users for a skill u seeks whose owner also seeks a
\* skill u offers, among all UserSkill rows.
Reciprocal(u) ==
    {s \in userSkills :
        /\ s.role = "offer" /\ s.user # u /\ Lists(u, s.skill, "seek")
        /\ \E t \in userSkills :
              t.user = s.user /\ t.role = "seek" /\ Lists(u, t.skill, "offer")}

\* C13: find_matches(u) returns exactly the first min(3, k) of the k
\* reciprocal rows among all the offer rows, in the iteration order of the
\* offer query; so it is non-empty whenever a reciprocal row exists, however
\* many rows that are not reciprocal precede it.
FirstReciprocalRowsWin ==
    [][\A u \in Users :
          Dashboard(u) =>
              LET rows == Iterate(Reciprocal(u))
                  k == Len(rows)
              IN  /\ Len(matches') = IF k < 3 THEN k ELSE 3
                  /\ \A i \in 1..Len(matches') :
                        /\ matches'[i].user_id = rows[i].user
                        /\ matches'[i].offer = rows[i].skill]_vars

\* The page rendered for user u with the thread of counterpart c open: every
\* message of the list that c sent to u is stored as read, and the list is
\* the messages between the two, all of them, in ascending timestamp order.
ThreadRendered(u, c) ==
    LET list == page'.messages
    IN  /\ \A i \in 1..Len(list) :
              list[i].sender = c /\ list[i].receiver = u
                  => messages'[list[i].id].is_read
        /\ {list[i].id : i \in 1..Len(list)} =
              {m \in DOMAIN messages' :
                  \/ messages'[m].sender = u /\ messages'[m].receiver = c
                  \/ messages'[m].sender = c /\ messages'[m].receiver = u}
        /\ \A i \in 1..Len(list), j \in 1..Len(list) :
              i < j => /\ list[i].id # list[j].id
                       /\ list[i].timestamp <= list[j].timestamp

\* C14: opening a conversation marks read and fetches atomically: every
\* message from the counterpart in the list the view returns is stored with
\* is_read = true when the view completes, even when the counterpart sends a
\* message between the mark-read step and the evaluation of the list; and
\* the list holds all messages between the pair in ascending timestamp order.
ViewMarksAllItShows ==
    [][/\ \A u \in Users, c \in Users, req \in Requests :
             MessagesView(u, c, req) /\ Content(req) = <<>>
                 => ThreadRendered(u, c)
       /\ MessagesFinish /\ thread.content = <<>>
             => ThreadRendered(thread.user, thread.counterpart)]_vars

\* The stored messages whose read flag the step changes.
Flipped ==
    {m \in DOMAIN messages \cap DOMAIN messages' :
        messages'[m].is_read # messages[m].is_read}

ConversationListExact ==
    [][\A u \in Users, c \in Threads, req \in Requests :
          /\ response' = Answer(Route(req.method), <<>>)
          /\ page'.selected_user = c
          /\ now' = now
          /\ MessagesView(u, c, req)
          =>  LET list == page'.conversations
              IN  /\ {list[i].user : i \in 1..Len(list)} =
                        {v \in Users :
                            \E m \in DOMAIN messages :
                                \/ /\ messages[m].sender = v
                                   /\ messages[m].receiver = u
                                \/ /\ messages[m].sender = u
                                   /\ messages[m].receiver = v}
                  /\ \A i \in 1..Len(list), j \in 1..Len(list) :
                        i # j => list[i].user # list[j].user
                  /\ \A i \in 1..Len(list) :
                        list[i].unread_count =
                            Cardinality({m \in DOMAIN messages :
                                /\ messages[m].sender = list[i].user
                                /\ messages[m].receiver = u
                                /\ ~messages[m].is_read})]_vars

\* A page of two conversations with the thread of one of them open: the list
\* reports the unread message that the same request has marked read.
UnreadCountedThenRead ==
    /\ response = Answer(Route("GET"), <<>>)
    /\ Len(page.conversations) = 2
    /\ \E i \in 1..2 :
          /\ page.conversations[i].user = page.selected_user
          /\ page.conversations[i].unread_count = 1
          /\ \A k \in 1..Len(page.messages) :
                page.messages[k].sender = page.selected_user
                    => messages[page.messages[k].id].is_read
    /\ \E i \in 1..2 :
          /\ page.conversations[i].user # page.selected_user
          /\ page.conversations[i].unread_count = 0

\* The content is empty once leading and trailing whitespace is trimmed.
Blank(content) == \A i \in 1..Len(content) : content[i] = " "

\* The step creates exactly one Message, from u to c and unread.
OneCreated(u, c) ==
    /\ message_id_seq' \notin DOMAIN messages
    /\ DOMAIN messages' = DOMAIN messages \cup {message_id_seq'}
    /\ messages'[message_id_seq'].sender = u
    /\ messages'[message_id_seq'].receiver = c
    /\ ~messages'[message_id_seq'].is_read

\* C17: a send whose content is empty after trimming writes nothing at all:
\* no Message row is created and no field of a stored Message changes, the
\* is_read of the counterpart's messages included; a send with content
\* creates exactly one Message from the current user to the counterpart with
\* is_read = false.
EmptySendWritesNothing ==
    [][\A u \in Users, c \in Users, req \in Requests :
          /\ req.method = "POST"
          /\ response'.view = Route("POST")
          /\ response'.level = <<>> => page'.selected_user = c
          /\ now' = now
          /\ MessagesView(u, c, req)
          =>  IF Blank(req.content) THEN messages' = messages
              ELSE OneCreated(u, c)]_vars

\* C17 as amended: a send whose content is empty after trimming creates no
\* Message row and, like every request for the thread, marks the
\* counterpart's messages to the current user read, changing nothing else; a
\* send with content does the same and creates exactly one Message from the
\* current user to the counterpart with is_read = false.
EmptySendOnlyMarksRead ==
    [][\A u \in Users, c \in Users, req \in Requests :
          /\ req.method = "POST"
          /\ response'.view = Route("POST")
          /\ response'.level = <<>> => page'.selected_user = c
          /\ now' = now
          /\ MessagesView(u, c, req)
          =>  /\ \A m \in DOMAIN messages :
                    messages'[m] =
                        IF messages[m].sender = c /\ messages[m].receiver = u
                        THEN [messages[m] EXCEPT !.is_read = TRUE]
                        ELSE messages[m]
              /\ IF Blank(req.content)
                 THEN DOMAIN messages' = DOMAIN messages
                 ELSE OneCreated(u, c)]_vars

\* The page of a send without content: its conversation list counted an
\* unread message of the counterpart, which is now stored as read.
EmptySendMarkedRead ==
    /\ response = Answer(Route("POST"), <<>>)
    /\ \E i \in 1..Len(page.conversations) :
          /\ page.conversations[i].user = page.selected_user
          /\ page.conversations[i].unread_count = 1
    /\ \E k \in 1..Len(page.messages) :
          /\ page.messages[k].sender = page.selected_user
          /\ page.messages[k].receiver # page.selected_user
          /\ messages[page.messages[k].id].is_read
    /\ DOMAIN messages = 1..2

\* The rows of user u as the submission means them to be: the changed rows
\* with their new values, the rows left alone, the added row (source 0), and
\* none of the rows marked for deletion.
Intended(u, sub) ==
    [i \in ({s.id : s \in OwnRows(u)} \ deleted_objects(sub))
           \cup (IF sub.extra.op = "add" THEN {0} ELSE {}) |->
        IF i = 0 THEN <<sub.extra.skill, sub.extra.role>>
        ELSE IF sub.forms[i].op = "change"
        THEN <<sub.forms[i].skill, sub.forms[i].role>>
        ELSE LET r == CHOOSE s \in userSkills : s.id = i
             IN  <<r.skill, r.role>>]

\* The submission would give the user one (skill, role) twice.
WouldDuplicate(u, sub) ==
    \E i \in DOMAIN Intended(u, sub), j \in DOMAIN Intended(u, sub) :
        i # j /\ Intended(u, sub)[i] = Intended(u, sub)[j]

\* C18: no two UserSkill rows ever share (user, skill, role), and a
\* manage_skills submission that would create a duplicate triple is rejected
\* as a validation failure without any write: no addition, update or
\* deletion of the submission reaches the store.
DuplicateRejectedWhole ==
    [][/\ \A r \in userSkills', s \in userSkills' :
             r.user = s.user /\ r.skill = s.skill /\ r.role = s.role
                 => r.id = s.id
       /\ \A u \in Correspondents : \A sub \in Submissions(u) :
             ManageSkills(u, sub) /\ WouldDuplicate(u, sub)
                 => /\ response'.level = <<"error">>
                    /\ userSkills' = userSkills]_vars

\* C19: every Exchange row that start_exchange or propose_exchange_view
\* creates has user1 different from user2, status pending, the three flags
\* false, and as skill1 a skill that user1 offers at that time; no user
\* creates an exchange with themselves.
CreatedWithAnotherUser ==
    [][\A e \in DOMAIN exchanges' \ DOMAIN exchanges :
          LET x == exchanges'[e]
          IN  /\ response'.view \in {"start_exchange", "propose_exchange"}
              /\ x.user1 # x.user2
              /\ x.status = "pending"
              /\ ~x.user1_completed /\ ~x.user2_completed /\ ~x.admin_approved
              /\ \E s \in userSkills :
                    s.user = x.user1 /\ s.role = "offer" /\ s.skill = x.skill1]_vars

\* An exchange with status completed whose three flags are all false.
Stuck(x) == x.status = "completed" /\ Fresh(x)

\* C20: reset_completion on an approved exchange (status completed) leaves it
\* with status completed and the three flags false, and it stays so in every
\* later state: no handler and no admin action changes its status or sets a
\* flag, so it is never approved again, and it shows status completed with
\* the completion status In Progress.
StuckAfterReset ==
    [][/\ \A u \in Users, S \in Selections :
             ResetCompletion(u, S) /\ AdminSitePermitted(u) =>
                 \A e \in S :
                     exchanges[e].status = "completed"
                         /\ exchanges[e].admin_approved
                     => Stuck(exchanges'[e])
       /\ \A e \in Rows :
             Stuck(exchanges[e]) =>
                 /\ e \in DOMAIN exchanges'
                 /\ Stuck(exchanges'[e])
                 /\ completion_status(exchanges'[e]) = "In Progress"]_vars

\* The only exchange was approved and then reset, and at a later time a
\* further approval of it has just been refused.
StuckRefusedApproval ==
    /\ DOMAIN exchanges = {1}
    /\ Stuck(exchanges[1])
    /\ exchanges[1].user1 # exchanges[1].user2
    /\ exchanges[1].last_updated < now
    /\ response = Answer("admin_approve_exchange", <<"error">>)

\* Some account is a staff account.
StaffExists == \E a \in Accounts : IsStaff(a)

\* The four tables the user management handlers write.
Tables == <<users, userSkills, exchanges, messages>>

\* C21: admin_delete_user and admin_toggle_staff, run one at a time from a
\* state with a staff user, never remove the last administrator: a staff
\* user exists in every state; a request by a non-staff user and a request
\* whose target is the caller change no table; and a User row whose flags a
\* request changes has is_superuser equal to is_staff afterwards and keeps
\* them equal from then on.
LastAdminKept ==
    /\ []StaffExists
    /\ [][/\ \A u \in Accounts, t \in Users :
                 (/\ ~IsStaff(u) \/ t = u
                  /\ AdminDeleteUser(u, t) \/ AdminToggleStaff(u, t))
                 => /\ Tables' = Tables
                    /\ response'.level \in {<<"login">>, <<"error">>}
          /\ \A t \in Accounts :
                 t \in DOMAIN users' =>
                     /\ users'[t] # users[t] =>
                            /\ users'[t].is_staff # users[t].is_staff
                            /\ users'[t].is_superuser = users'[t].is_staff
                     /\ users[t].is_superuser = users[t].is_staff =>
                            users'[t].is_superuser = users'[t].is_staff]_vars

\* The one administrator has deleted every other account, has then asked to
\* give up the staff status, and was refused: the account is still staff.
LastAdminRefusedSelf ==
    /\ Cardinality(Accounts) = 1
    /\ StaffExists
    /\ exchanges = << >>
    /\ response = Answer("admin_toggle_staff", <<"error">>)

====
